---- MODULE Spec2Model ----
(***************************************************************************)
(* Veo Studio: the generation lifecycle of components/VideoStudio.tsx      *)
(* (startGeneration, removeVideo, parseErrorMessage), the adapter of       *)
(* services/geminiService.ts and the credential gate of App.tsx.           *)
(*                                                                         *)
(* Text is modelled as a sequence of lexical tokens (words, the JSON       *)
(* punctuation, the double quote and the line break).  String.includes is  *)
(* contiguous sub-sequence search, toLowerCase maps each token, the regular*)
(* expression and JSON.parse work on the tokens.                           *)
(***************************************************************************)
EXTENDS Integers, Sequences, FiniteSets, TLC

VARIABLES
  \* App
  hasKey,           \* "null" | "true" | "false"
  checkKeyPending,  \* the checkKey() of the mount effect has not settled
  selectPending,    \* an openSelectKey() call is in flight
  \* VideoStudio state (useState)
  prompt, resolution, aspectRatio, isGenerating, statusMessage, history,
  error,            \* <<>> is null, <<[message, isQuota]>> otherwise
  selectedImage,    \* TRUE when an image is selected (non-null)
  readerPending,    \* a FileReader of handleImageSelect has not fired onloadend
  \* startGeneration invocations
  tasks,            \* the invocations in flight: position and closed-over values
  \* environment
  now,              \* Date.now()
  apiKey,           \* process.env.API_KEY
  revokes,          \* per object URL handed out: the number of revokeObjectURL calls
  \* observation of the run
  last,             \* how the step just taken ended an invocation ("none" if it ended none)
  \* the unwrapping applied to one text: the text as prefix, body and
  \* suffix, and the result (<<>> until applied)
  pIn, pOut

appVars == <<checkKeyPending, selectPending>>
inputVars == <<prompt, resolution, aspectRatio, selectedImage, readerPending>>
parseVars == <<pIn, pOut>>
vars == <<hasKey, checkKeyPending, selectPending, prompt, resolution, aspectRatio,
          isGenerating, statusMessage, history, error, selectedImage, readerPending,
          tasks, now, apiKey, revokes, last, pIn, pOut>>

\* object URLs the browser hands out in one run
MaxVideos == 1

----------------------------------------------------------------------------
(* Text primitives *)

Q == "\""
NL == "\n"

NotFoundMarker == <<"Requested entity was not found">>
KeyResetMsg == <<"API_KEY_RESET_REQUIRED">>

\* String.prototype.includes
Includes(hay, needle) ==
  \E i \in 0..(Len(hay) - Len(needle)) : SubSeq(hay, i + 1, i + Len(needle)) = needle

LowerTok(t) ==
  CASE t = "Quota" -> "quota"
    [] t = "QUOTA" -> "quota"
    [] t = "RESOURCE_EXHAUSTED" -> "resource_exhausted"
    [] t = "Error:" -> "error:"
    [] t = "X" -> "x"
    [] t = "Y" -> "y"
    [] t = "Too" -> "too"
    [] t = "Requested entity was not found" -> "requested entity was not found"
    [] OTHER -> t

\* String.prototype.toLowerCase
ToLowerCase(msg) == [i \in 1..Len(msg) |-> LowerTok(msg[i])]

SetMin(S) == CHOOSE x \in S : \A y \in S : x <= y
SetMax(S) == CHOOSE x \in S : \A y \in S : x >= y

\* msg.match(/\{.*\}/): the leftmost "{" that has a "}" after it on the same
\* line, extended greedily to the last "}" of that line. <<>> is null,
\* <<m>> is a match whose [0] is m.
OneLine(msg, i, j) == \A k \in i..j : msg[k] # NL
BraceEnds(msg, i) == {j \in (i + 1)..Len(msg) : msg[j] = "}" /\ OneLine(msg, i, j)}
BraceStarts(msg) == {i \in 1..Len(msg) : msg[i] = "{" /\ BraceEnds(msg, i) # {}}
MatchBraces(msg) ==
  IF BraceStarts(msg) = {} THEN <<>>
  ELSE LET i == SetMin(BraceStarts(msg))
       IN <<SubSeq(msg, i, SetMax(BraceEnds(msg, i)))>>

----------------------------------------------------------------------------
(* JSON.parse on tokens.  A value is [t, s, m]: t is "str" (s its content), *)
(* "num" (s the one number token), "obj" (m its members, in order, each     *)
(* [k, v]) or "undef".                                                      *)

Undef == [t |-> "undef", s |-> <<>>, m |-> <<>>]
StrVal(s) == [t |-> "str", s |-> s, m |-> <<>>]
NumVal(n) == [t |-> "num", s |-> <<n>>, m |-> <<>>]
ObjVal(m) == [t |-> "obj", s |-> <<>>, m |-> m]

NumberToks == {"0", "404", "429", "500"}
Fail == [ok |-> FALSE, v |-> Undef, next |-> 0]
Ok(v, next) == [ok |-> TRUE, v |-> v, next |-> next]

\* a string literal starting at pos: quote, content without quote or line
\* break, quote
ParseString(toks, pos) ==
  IF pos > Len(toks) \/ toks[pos] # Q THEN Fail
  ELSE LET closes == {e \in (pos + 1)..Len(toks) : toks[e] = Q}
       IN IF closes = {} THEN Fail
          ELSE LET e == SetMin(closes)
               IN IF OneLine(toks, pos, e)
                  THEN Ok(StrVal(SubSeq(toks, pos + 1, e - 1)), e + 1)
                  ELSE Fail

RECURSIVE ParseValue(_, _), ParseMembers(_, _, _)

\* the members of an object from pos on, up to and including its "}"
ParseMembers(toks, pos, acc) ==
  LET key == ParseString(toks, pos)
  IN IF ~key.ok \/ key.next > Len(toks) \/ toks[key.next] # ":" THEN Fail
     ELSE LET val == ParseValue(toks, key.next + 1)
              mem == Append(acc, [k |-> key.v.s, v |-> val.v])
          IN IF ~val.ok \/ val.next > Len(toks) THEN Fail
             ELSE IF toks[val.next] = "}" THEN Ok(ObjVal(mem), val.next + 1)
             ELSE IF toks[val.next] = "," THEN ParseMembers(toks, val.next + 1, mem)
             ELSE Fail

ParseValue(toks, pos) ==
  IF pos > Len(toks) THEN Fail
  ELSE IF toks[pos] = Q THEN ParseString(toks, pos)
  ELSE IF toks[pos] \in NumberToks THEN Ok(NumVal(toks[pos]), pos + 1)
  ELSE IF toks[pos] = "{"
       THEN IF pos + 1 <= Len(toks) /\ toks[pos + 1] = "}"
            THEN Ok(ObjVal(<<>>), pos + 2)
            ELSE ParseMembers(toks, pos + 1, <<>>)
  ELSE Fail

\* JSON.parse(text): the whole text must be one value; ok = FALSE is the
\* SyntaxError
JSONparse(toks) ==
  LET r == ParseValue(toks, 1)
  IN IF r.ok /\ r.next = Len(toks) + 1 THEN r ELSE Fail

\* property read v.key (the last of duplicate keys wins; a primitive has no
\* such property)
Get(v, key) ==
  IF v.t # "obj" THEN Undef
  ELSE LET hits == {i \in 1..Len(v.m) : v.m[i].k = <<key>>}
       IN IF hits = {} THEN Undef ELSE v.m[SetMax(hits)].v

\* JavaScript truthiness
Truthy(v) ==
  CASE v.t = "str" -> v.s # <<>>
    [] v.t = "num" -> v.s # <<"0">>
    [] v.t = "obj" -> TRUE
    [] OTHER -> FALSE

\* the text of a value used as a display string
Text(v) == v.s

----------------------------------------------------------------------------
(* Thrown values.  message is err.message (<<>> when absent), string is    *)
(* String(err), json is JSON.stringify(err).                               *)

\* new Error(msg)
ErrorOf(msg) == [message |-> msg, string |-> <<"Error:">> \o msg, json |-> <<"{", "}">>]

\* the ProgressEvent a FileReader rejects fileToBase64 with
ReaderErrorEvent ==
  [message |-> <<>>, string |-> <<"[object ProgressEvent]">>, json |-> <<"{", "}">>]

(* VideoStudio.parseErrorMessage *)

\* err.message || String(err)
RawMessage(err) == IF err.message # <<>> THEN err.message ELSE err.string

\* the two field tests in the other order
ParsedFieldMessageFirst(parsed) ==
  IF Truthy(Get(parsed, "message"))
  THEN <<Text(Get(parsed, "message"))>>
  ELSE IF Truthy(Get(Get(parsed, "error"), "message"))
  THEN <<Text(Get(Get(parsed, "error"), "message"))>>
  ELSE <<>>

\* parsed.error?.message, then parsed.message: <<text>> of the first that is
\* truthy, <<>> when neither is
ParsedField(parsed) ==
  IF Truthy(Get(Get(parsed, "error"), "message"))
  THEN <<Text(Get(Get(parsed, "error"), "message"))>>
  ELSE IF Truthy(Get(parsed, "message"))
  THEN <<Text(Get(parsed, "message"))>>
  ELSE <<>>

\* a fallback that returns the matched substring
parseErrorMessageMatch(err) ==
  LET msg == RawMessage(err)
      jsonMatch == MatchBraces(msg)
  IN IF jsonMatch = <<>> THEN msg
     ELSE LET r == JSONparse(jsonMatch[1])
          IN IF r.ok /\ ParsedField(r.v) # <<>> THEN ParsedField(r.v)[1] ELSE jsonMatch[1]

parseErrorMessage(err) ==
  LET msg == RawMessage(err)
      jsonMatch == MatchBraces(msg)
  IN IF jsonMatch = <<>> THEN msg
     ELSE LET r == JSONparse(jsonMatch[1])
          IN IF r.ok /\ ParsedField(r.v) # <<>> THEN ParsedField(r.v)[1] ELSE msg

\* the quota test of startGeneration's catch
isQuotaError(cleanMsg) ==
  \/ Includes(cleanMsg, <<"RESOURCE_EXHAUSTED">>)
  \/ Includes(cleanMsg, <<"429">>)
  \/ Includes(ToLowerCase(cleanMsg), <<"quota">>)

----------------------------------------------------------------------------
(* Error texts the unwrapping is exercised on: prefix, body, suffix *)

Str(s) == <<Q>> \o s \o <<Q>>
Member(k, v) == Str(<<k>>) \o <<":">> \o v
Obj1(a) == <<"{">> \o a \o <<"}">>
Obj2(a, b) == <<"{">> \o a \o <<",">> \o b \o <<"}">>
Obj3(a, b, c) == <<"{">> \o a \o <<",">> \o b \o <<",">> \o c \o <<"}">>

JsonErrorX == Obj1(Member("error", Obj1(Member("message", Str(<<"X">>)))))
JsonMessageX == Obj1(Member("message", Str(<<"X">>)))
JsonBoth == Obj2(Member("error", Obj1(Member("message", Str(<<"X">>)))),
                 Member("message", Str(<<"Y">>)))
JsonEnvelope429 ==
  Obj1(Member("error", Obj3(Member("code", <<"429">>),
                            Member("message", Str(<<"Too", "many", "requests">>)),
                            Member("status", Str(<<"RESOURCE_EXHAUSTED">>)))))
JsonNotFound ==
  Obj1(Member("error", Obj2(Member("code", <<"404">>),
                            Member("message", Str(NotFoundMarker)))))
JsonQuota == Obj1(Member("error", Obj1(Member("message", Str(<<"Quota", "exceeded">>)))))
JsonEmptyInner == Obj2(Member("error", Obj1(Member("message", Str(<<>>)))),
                       Member("message", Str(<<"Y">>)))
JsonEmptyMessage == Obj1(Member("message", Str(<<>>)))
JsonNoMessage == Obj1(Member("code", <<"429">>))
JsonErrorString == Obj1(Member("error", Str(<<"quota">>)))
JsonUnclosed == <<"{">> \o Member("message", Str(<<"X">>))
JsonTwoLines == <<"{", NL>> \o Member("message", Str(<<"X">>)) \o <<NL, "}">>

PlainGeneric == <<"internal", "server", "error">>
PlainQuota == <<"quota", "exceeded", "RESOURCE_EXHAUSTED">>

Prefixes == {<<>>, <<"Error:">>, <<"Error:", "{">>, <<"429">>}
Bodies == {JsonErrorX, JsonMessageX, JsonBoth, JsonEnvelope429, JsonQuota,
           JsonEmptyInner, JsonEmptyMessage, JsonNoMessage, JsonErrorString,
           JsonUnclosed, JsonTwoLines, PlainGeneric, PlainQuota, <<"Quota">>}
Suffixes == {<<>>, <<"}">>, <<"retry">>, <<NL, "{", "}">>}

ParseInputs == [pre : Prefixes, body : Bodies, suf : Suffixes]
NoParseInput == [pre |-> <<>>, body |-> <<>>, suf |-> <<>>]
TextOf(in) == in.pre \o in.body \o in.suf

----------------------------------------------------------------------------
(* Values of the studio *)

Prompts == {"", " ", "a cat"}
Resolutions == {"720p", "1080p"}
AspectRatios == {"16:9", "9:16"}

\* String.prototype.trim
Trim(p) == IF p = " " THEN "" ELSE p

PreparingMsg == "Preparing cinematic assets..."
DreamingMsg == "Model is dreaming... this may take a few minutes."
FinalizingMsg == "Finalizing download link..."
stages == <<"Analyzing source details...", "Calculating motion vectors...",
            "Rendering physics and light...", "Refining temporal consistency...",
            "Applying final cinematic grade...">>

InvalidImageError == [message |-> <<"Please select a valid image file.">>, isQuota |-> FALSE]
NoInputError ==
  [message |-> <<"Please provide at least a prompt or an image.">>, isQuota |-> FALSE]
NoContentMsg == <<"Generation completed but no video content was returned.">>
GenerationFailedMsg == <<"Generation failed">>
PlaceholderPrompt == "Image-to-Video Animation"

----------------------------------------------------------------------------
(* What the remote service and the network can answer *)

\* a rejection with a plain object that has no message property: the marker
\* is in its JSON text only
ObjectNotFound ==
  [message |-> <<>>, string |-> <<"[object Object]">>, json |-> JsonNotFound]

\* rejections of ai.models.generateVideos and ai.operations.getVideosOperation
ServiceErrors ==
  {ErrorOf(m) : m \in {PlainGeneric, PlainQuota, JsonEnvelope429, JsonNotFound,
                       <<"429">> \o NotFoundMarker \o <<"quota">>}}
  \cup {ObjectNotFound}

\* operation.error.message of a finished operation (<<>>: no message)
OpErrorMsgs == {<<>>, PlainGeneric, <<"quota">> \o NotFoundMarker}

\* an operation as the controller reads it: done, error (<<>> when absent,
\* <<message>> otherwise), the uri of the first generated video ("" when
\* absent)
Pending == [done |-> FALSE, error |-> <<>>, uri |-> ""]
Finished ==
  {[done |-> TRUE, error |-> e, uri |-> u] :
     e \in {<<>>} \cup {<<m>> : m \in OpErrorMsgs}, u \in {"", "uri"}}

\* non-OK responses of fetch(): status and body text
BadStatuses == {"404", "429", "500"}
BadBodies == {<<>>, NotFoundMarker}

\* the TypeError fetch() rejects with when the request cannot be made
NetworkError == ErrorOf(<<"Failed", "to", "fetch">>)

----------------------------------------------------------------------------
(* geminiService.ts: what each adapter call throws *)

\* a catch that rethrows what it caught
AdapterThrowPassThrough(err) == err

\* the catch of generateVeoVideo and of getOperationStatus
AdapterThrow(err) ==
  LET errorStr == err.json \o err.message
  IN IF Includes(errorStr, NotFoundMarker) THEN ErrorOf(KeyResetMsg) ELSE err

\* a branch that tests the body only
FetchThrowBodyOnly(status, text) ==
  IF Includes(text, NotFoundMarker)
  THEN ErrorOf(KeyResetMsg)
  ELSE ErrorOf(<<"Failed to fetch video content:", status>> \o text)

\* the !response.ok branch of fetchVideoBlobUrl
FetchThrow(status, text) ==
  IF Includes(text, NotFoundMarker) \/ status = "404"
  THEN ErrorOf(KeyResetMsg)
  ELSE ErrorOf(<<"Failed to fetch video content:", status>> \o text)

\* the values process.env.API_KEY takes
ApiKeys == {"key1", "key2"}

\* the key as it was when the module was loaded
KeyAtModuleLoad == "key1"

\* process.env.API_KEY as generateVeoVideo, getOperationStatus and
\* fetchVideoBlobUrl read it, each at its call
KeyAtCall == apiKey

\* a call that sends the prompt as it is
SentPromptAsIs(p) == p

\* prompt || 'Animate this image with natural motion': the prompt
\* generateVeoVideo passes to ai.models.generateVideos
SentPrompt(p) == IF p # "" THEN p ELSE "Animate this image with natural motion"

----------------------------------------------------------------------------
(* Invocations of startGeneration *)

\* what the run observes of the step just taken when it ends an invocation,
\* is a removeVideo call or settles openSelectKey(): outcome, the stage at which the invocation
\* failed, the text the service gave (svc), the message of the value thrown
\* into the catch (raw), the onKeyReset() calls made, the argument of the
\* catch's setError (<<>> when not called), the ids of the videos that were
\* in history when an invocation that succeeded was started (seen)
NoLast == [outcome |-> "none", stage |-> "", svc |-> <<>>, raw |-> <<>>,
           resets |-> 0, shown |-> <<>>, seen |-> <<>>]

StudioInit ==
  /\ prompt = "" /\ resolution = "720p" /\ aspectRatio = "16:9"
  /\ isGenerating = FALSE /\ statusMessage = "" /\ history = <<>>
  /\ error = <<>> /\ selectedImage = FALSE /\ readerPending = FALSE

Init ==
  /\ hasKey = "null" /\ checkKeyPending = TRUE /\ selectPending = FALSE
  /\ StudioInit
  /\ tasks = <<>>
  /\ now = 0 /\ revokes = <<>> /\ apiKey = "key1"
  /\ last = NoLast
  /\ pIn = NoParseInput /\ pOut = <<>>

\* a render that shows the studio whatever hasKey is
MountedAlways == TRUE

\* the studio is rendered: hasKey is neither null nor false
Mounted == hasKey = "true"

----------------------------------------------------------------------------
(* App.tsx and ApiKeyRequired.tsx *)

\* checkKey: hasSelectedApiKey() resolves with selected
CheckKeyResolveTo(selected) ==
  /\ checkKeyPending
  /\ checkKeyPending' = FALSE
  /\ hasKey' = IF selected THEN "true" ELSE "false"
  /\ last' = NoLast
  /\ UNCHANGED <<selectPending, inputVars, isGenerating, statusMessage, history, error,
                 tasks, now, revokes, apiKey, parseVars>>

\* checkKey: hasSelectedApiKey() resolves
CheckKeyResolve ==
  /\ checkKeyPending
  /\ checkKeyPending' = FALSE
  /\ \E selected \in BOOLEAN : hasKey' = IF selected THEN "true" ELSE "false"
  /\ last' = NoLast
  /\ UNCHANGED <<selectPending, inputVars, isGenerating, statusMessage, history, error,
                 tasks, now, revokes, apiKey, parseVars>>

\* checkKey: hasSelectedApiKey() rejects
CheckKeyReject ==
  /\ checkKeyPending
  /\ checkKeyPending' = FALSE
  /\ hasKey' = "false"
  /\ last' = NoLast
  /\ UNCHANGED <<selectPending, inputVars, isGenerating, statusMessage, history, error,
                 tasks, now, revokes, apiKey, parseVars>>

\* the "Select API Key" button: handleSelectKey up to its await
HandleSelectKey ==
  /\ hasKey = "false"
  /\ ~selectPending
  /\ selectPending' = TRUE
  /\ last' = NoLast
  /\ UNCHANGED <<hasKey, checkKeyPending, inputVars, isGenerating, statusMessage, history,
                 error, tasks, now, revokes, apiKey, parseVars>>

\* openSelectKey() resolves: onKeySelected() sets hasKey, and a VideoStudio
\* that was not rendered is mounted with the initial state of its useState
\* calls
OpenSelectKeyResolve ==
  /\ selectPending
  /\ selectPending' = FALSE
  /\ hasKey' = "true"
  /\ last' = [NoLast EXCEPT !.outcome = "keySelected"]
  /\ UNCHANGED <<checkKeyPending, inputVars, isGenerating, statusMessage, history, error,
                 tasks, now, revokes, apiKey, parseVars>>

\* a catch that calls onKeySelected() all the same
OpenSelectKeyRejectSelects ==
  /\ selectPending
  /\ selectPending' = FALSE
  /\ hasKey' = "true"
  /\ last' = [NoLast EXCEPT !.outcome = "selectFailed"]
  /\ UNCHANGED <<checkKeyPending, inputVars, isGenerating, statusMessage, history, error,
                 tasks, now, revokes, apiKey, parseVars>>

\* openSelectKey() rejects: logged, onKeySelected is not called
OpenSelectKeyReject ==
  /\ selectPending
  /\ selectPending' = FALSE
  /\ last' = [NoLast EXCEPT !.outcome = "selectFailed"]
  /\ UNCHANGED <<hasKey, checkKeyPending, inputVars, isGenerating, statusMessage, history,
                 error, tasks, now, revokes, apiKey, parseVars>>

----------------------------------------------------------------------------
(* VideoStudio: the input controls *)

\* the textarea (disabled while isGenerating): onChange fires when the text
\* changes
SetPrompt(p) ==
  /\ Mounted /\ ~isGenerating
  /\ p # prompt
  /\ prompt' = p
  /\ last' = NoLast
  /\ UNCHANGED <<hasKey, appVars, resolution, aspectRatio, selectedImage, readerPending, isGenerating,
                 statusMessage, history, error, tasks, now, revokes, apiKey, parseVars>>

\* the resolution buttons (disabled while isGenerating); setting the value
\* the state already holds changes nothing
SetResolution(r) ==
  /\ Mounted /\ ~isGenerating
  /\ r # resolution
  /\ resolution' = r
  /\ last' = NoLast
  /\ UNCHANGED <<hasKey, appVars, prompt, aspectRatio, selectedImage, readerPending, isGenerating,
                 statusMessage, history, error, tasks, now, revokes, apiKey, parseVars>>

\* the aspect-ratio buttons (disabled while isGenerating); setting the
\* value the state already holds changes nothing
SetAspectRatio(a) ==
  /\ Mounted /\ ~isGenerating
  /\ a # aspectRatio
  /\ aspectRatio' = a
  /\ last' = NoLast
  /\ UNCHANGED <<hasKey, appVars, prompt, resolution, selectedImage, readerPending, isGenerating,
                 statusMessage, history, error, tasks, now, revokes, apiKey, parseVars>>

\* the file input, rendered while no image is selected: a file that is not
\* an image sets the error, an image starts a FileReader
handleImageSelect(isImage) ==
  /\ Mounted /\ ~selectedImage
  /\ IF isImage
     THEN readerPending' = TRUE /\ UNCHANGED error
     ELSE error' = <<InvalidImageError>> /\ UNCHANGED readerPending
  /\ last' = NoLast
  /\ UNCHANGED <<hasKey, appVars, prompt, resolution, aspectRatio, selectedImage,
                 isGenerating, statusMessage, history, tasks, now, revokes, apiKey, parseVars>>

\* reader.onloadend
ReaderLoadEnd ==
  /\ Mounted /\ readerPending
  /\ readerPending' = FALSE
  /\ selectedImage' = TRUE
  /\ last' = NoLast
  /\ UNCHANGED <<hasKey, appVars, prompt, resolution, aspectRatio, isGenerating,
                 statusMessage, history, error, tasks, now, revokes, apiKey, parseVars>>

\* the X button over the preview, rendered while an image is selected
clearImage ==
  /\ Mounted /\ selectedImage
  /\ selectedImage' = FALSE
  /\ last' = NoLast
  /\ UNCHANGED <<hasKey, appVars, prompt, resolution, aspectRatio, readerPending, isGenerating,
                 statusMessage, history, error, tasks, now, revokes, apiKey, parseVars>>

----------------------------------------------------------------------------
(* VideoStudio.startGeneration *)

\* the button guard without the isGenerating test
GenerateDisabledNoFlag == Trim(prompt) = "" /\ ~selectedImage

\* the disabled attribute of the generate button
GenerateDisabled == isGenerating \/ (Trim(prompt) = "" /\ ~selectedImage)

\* startGeneration without its precondition test
startGenerationNoPrecondition ==
  /\ isGenerating' = TRUE
  /\ error' = <<>>
  /\ statusMessage' = PreparingMsg
  /\ tasks' = Append(tasks,
       [pc |-> IF selectedImage THEN "reading" ELSE "submitting",
        prompt |-> prompt, resolution |-> resolution, aspectRatio |-> aspectRatio,
        key |-> IF selectedImage THEN "" ELSE KeyAtCall, prevKey |-> "",
             sent |-> IF selectedImage THEN "" ELSE SentPrompt(prompt),
        seen |-> [i \in 1..Len(history) |-> history[i].id]])
  /\ last' = NoLast

\* an invocation makes an adapter call and waits for its answer at pc: key
\* is the API key the call reads, prevKey the key of the call before
CallAdapter(t, pc) == [t EXCEPT !.pc = pc, !.prevKey = t.key, !.key = KeyAtCall]

\* a start that leaves the error as it is
startGenerationKeepsError ==
  IF Trim(prompt) = "" /\ ~selectedImage
  THEN /\ error' = <<NoInputError>>
       /\ last' = [NoLast EXCEPT !.outcome = "rejected"]
       /\ UNCHANGED <<isGenerating, statusMessage, tasks>>
  ELSE /\ isGenerating' = TRUE
       /\ error' = error
       /\ statusMessage' = PreparingMsg
       /\ tasks' = Append(tasks,
            [pc |-> IF selectedImage THEN "reading" ELSE "submitting",
             prompt |-> prompt, resolution |-> resolution, aspectRatio |-> aspectRatio,
             key |-> IF selectedImage THEN "" ELSE KeyAtCall, prevKey |-> "",
             sent |-> IF selectedImage THEN "" ELSE SentPrompt(prompt),
             seen |-> [i \in 1..Len(history) |-> history[i].id]])
       /\ last' = NoLast

\* startGeneration from its entry to its first await.  With an image the
\* first await is fileToBase64; without one generateVeoVideo is called at
\* once.
startGeneration ==
  IF Trim(prompt) = "" /\ ~selectedImage
  THEN /\ error' = <<NoInputError>>
       /\ last' = [NoLast EXCEPT !.outcome = "rejected"]
       /\ UNCHANGED <<isGenerating, statusMessage, tasks>>
  ELSE /\ isGenerating' = TRUE
       /\ error' = <<>>
       /\ statusMessage' = PreparingMsg
       /\ tasks' = Append(tasks,
            [pc |-> IF selectedImage THEN "reading" ELSE "submitting",
             prompt |-> prompt, resolution |-> resolution, aspectRatio |-> aspectRatio,
             key |-> IF selectedImage THEN "" ELSE KeyAtCall, prevKey |-> "",
             sent |-> IF selectedImage THEN "" ELSE SentPrompt(prompt),
        seen |-> [i \in 1..Len(history) |-> history[i].id]])
       /\ last' = NoLast

\* a click on the generate button
ClickGenerate ==
  /\ Mounted /\ ~GenerateDisabled
  /\ startGeneration
  /\ UNCHANGED <<hasKey, appVars, inputVars, history, now, revokes, apiKey, parseVars>>

\* a finally block that leaves isGenerating as it is
FinallyKeepsGenerating(j) ==
  /\ isGenerating' = isGenerating
  /\ statusMessage' = ""
  /\ tasks' = [i \in 1..(Len(tasks) - 1) |-> IF i < j THEN tasks[i] ELSE tasks[i + 1]]

\* a finally block that leaves the status message as it is
FinallyKeepsStatus(j) ==
  /\ isGenerating' = FALSE
  /\ statusMessage' = statusMessage
  /\ tasks' = [i \in 1..(Len(tasks) - 1) |-> IF i < j THEN tasks[i] ELSE tasks[i + 1]]

\* the finally block
Finally(j) ==
  /\ isGenerating' = FALSE
  /\ statusMessage' = ""
  /\ tasks' = [i \in 1..(Len(tasks) - 1) |-> IF i < j THEN tasks[i] ELSE tasks[i + 1]]

\* every value that reaches the catch block, and parseErrorMessage of each
Thrown ==
  {ReaderErrorEvent, ErrorOf(KeyResetMsg), ErrorOf(GenerationFailedMsg),
   ErrorOf(NoContentMsg), NetworkError}
  \cup {AdapterThrow(e) : e \in ServiceErrors}
  \cup {ErrorOf(m) : m \in OpErrorMsgs \ {<<>>}}
  \cup {FetchThrow(st, text) : st \in BadStatuses, text \in BadBodies}
cleanMsgOf == [err \in Thrown |-> parseErrorMessage(err)]

\* onKeyReset() is App.handleKeyReset: hasKey becomes false and the render
\* that follows unmounts the studio, which discards its state; the state
\* variables then hold what the next mount starts from
Unmount ==
  /\ prompt' = "" /\ resolution' = "720p" /\ aspectRatio' = "16:9"
  /\ isGenerating' = FALSE /\ statusMessage' = "" /\ history' = <<>>
  /\ error' = <<>> /\ selectedImage' = FALSE /\ readerPending' = FALSE

\* the reset test without the sentinel message
NeedsKeyResetNoSentinel(err, cleanMsg) == Includes(cleanMsg, NotFoundMarker)

\* a catch that never resets the key
NeedsKeyResetNever(err, cleanMsg) == FALSE

\* the test of the catch block that leads to onKeyReset()
NeedsKeyReset(err, cleanMsg) ==
  err.message = KeyResetMsg \/ Includes(cleanMsg, NotFoundMarker)

\* the catch block from the reset test on, then finally: cleanMsg is the
\* unwrapped message, reset the outcome of the reset test.  stage and svc
\* only record what made the invocation fail.
CatchWith(j, err, stage, svc, cleanMsg, reset) ==
  /\ IF reset
     THEN /\ hasKey' = "false"
          /\ Unmount
          /\ tasks' = <<>>
     ELSE /\ error' = <<[message |-> cleanMsg, isQuota |-> isQuotaError(cleanMsg)]>>
          /\ Finally(j)
          /\ UNCHANGED <<hasKey, inputVars, history>>
  /\ last' = [outcome |-> IF reset THEN "reset" ELSE "failed", stage |-> stage,
              svc |-> svc, raw |-> RawMessage(err),
              resets |-> IF reset THEN 1 ELSE 0,
              shown |-> IF reset THEN <<>>
                        ELSE <<[message |-> cleanMsg, isQuota |-> isQuotaError(cleanMsg)]>>,
              seen |-> <<>>]

\* the catch block, then finally
Catch(j, err, stage, svc) ==
  CatchWith(j, err, stage, svc, cleanMsgOf[err], NeedsKeyReset(err, cleanMsgOf[err]))

\* fileToBase64 resolves: generateVeoVideo is called
FileToBase64Resolve(j) ==
  /\ tasks[j].pc = "reading"
  /\ tasks' = [tasks EXCEPT ![j] = [CallAdapter(@, "submitting")
                                     EXCEPT !.sent = SentPrompt(tasks[j].prompt)]]
  /\ last' = NoLast
  /\ UNCHANGED <<hasKey, appVars, inputVars, isGenerating, statusMessage, history, error,
                 now, revokes, apiKey, parseVars>>

\* fileToBase64 rejects with the reader's error event
FileToBase64Reject(j) ==
  /\ tasks[j].pc = "reading"
  /\ Catch(j, ReaderErrorEvent, "read", ReaderErrorEvent.string)
  /\ UNCHANGED <<appVars, now, revokes, apiKey, parseVars>>

\* a uri test that always passes
HasVideoUriAlways(op) == TRUE

\* if (videoUri): operation.response?.generatedVideos?.[0]?.video?.uri is
\* present
HasVideoUri(op) == op.uri # ""

\* a loop test that never holds
StillPendingNever(op) == FALSE

\* while (!operation.done)
StillPending(op) == ~op.done

\* an error test that never holds
HasJobErrorNever(op) == FALSE

\* if (operation.error)
HasJobError(op) == op.error # <<>>

\* a job-level error reported with the default text only
JobErrorThrowDefault(op) == ErrorOf(GenerationFailedMsg)

\* what the if (operation.error) block throws
JobErrorThrow(op) ==
  LET opErrorMsg == IF op.error[1] # <<>> THEN op.error[1] ELSE GenerationFailedMsg
  IN IF Includes(opErrorMsg, NotFoundMarker)
     THEN ErrorOf(KeyResetMsg) ELSE ErrorOf(opErrorMsg)

\* the code that follows an operation value op, from the while test to the
\* next await or to the end of the invocation
AfterStatus(j, op) ==
  IF StillPending(op)
  THEN /\ \E i \in 1..Len(stages) : statusMessage' = stages[i]
       /\ tasks' = [tasks EXCEPT ![j].pc = "delay"]
       /\ last' = NoLast
       /\ UNCHANGED <<hasKey, inputVars, history, error, isGenerating>>
  ELSE IF HasJobError(op)
  THEN Catch(j, JobErrorThrow(op), "job", op.error[1])
  ELSE IF HasVideoUri(op)
  THEN /\ statusMessage' = FinalizingMsg
       /\ tasks' = [tasks EXCEPT ![j] = CallAdapter(@, "fetching")]
       /\ last' = NoLast
       /\ UNCHANGED <<hasKey, inputVars, history, error, isGenerating>>
  ELSE Catch(j, ErrorOf(NoContentMsg), "nouri", <<>>)

\* generateVeoVideo resolves with an operation
SubmitResolve(j, op) ==
  /\ tasks[j].pc = "submitting"
  /\ AfterStatus(j, op)
  /\ UNCHANGED <<appVars, now, revokes, apiKey, parseVars>>

\* generateVeoVideo rejects
SubmitReject(j, e) ==
  /\ tasks[j].pc = "submitting"
  /\ Catch(j, AdapterThrow(e), "submit", e.message)
  /\ UNCHANGED <<appVars, now, revokes, apiKey, parseVars>>

\* a timer after which the job is submitted again
DelayDoneResubmits(j) ==
  /\ tasks[j].pc = "delay"
  /\ tasks' = [tasks EXCEPT ![j] = CallAdapter(@, "submitting")]
  /\ last' = NoLast
  /\ UNCHANGED <<hasKey, appVars, inputVars, isGenerating, statusMessage, history, error,
                 now, revokes, apiKey, parseVars>>

\* the 10 s timer fires: getOperationStatus is called
DelayDone(j) ==
  /\ tasks[j].pc = "delay"
  /\ tasks' = [tasks EXCEPT ![j] = CallAdapter(@, "polling")]
  /\ last' = NoLast
  /\ UNCHANGED <<hasKey, appVars, inputVars, isGenerating, statusMessage, history, error,
                 now, revokes, apiKey, parseVars>>

\* getOperationStatus resolves with an operation
PollResolve(j, op) ==
  /\ tasks[j].pc = "polling"
  /\ AfterStatus(j, op)
  /\ UNCHANGED <<appVars, now, revokes, apiKey, parseVars>>

\* a rejected poll that is tried again after the delay
PollRejectRetries(j, e) ==
  /\ tasks[j].pc = "polling"
  /\ tasks' = [tasks EXCEPT ![j].pc = "delay"]
  /\ last' = NoLast
  /\ UNCHANGED <<hasKey, appVars, inputVars, isGenerating, statusMessage, history, error,
                 now, revokes, apiKey, parseVars>>

\* getOperationStatus rejects
PollReject(j, e) ==
  /\ tasks[j].pc = "polling"
  /\ Catch(j, AdapterThrow(e), "poll", e.message)
  /\ UNCHANGED <<appVars, now, revokes, apiKey, parseVars>>

\* a record that takes the settings from the initial state
NewVideoDefaultSettings(j, blobUrl) ==
  [id |-> now + 1, url |-> blobUrl,
   prompt |-> IF tasks[j].prompt # "" THEN tasks[j].prompt ELSE PlaceholderPrompt,
   resolution |-> "720p", aspectRatio |-> "16:9", createdAt |-> now + 1]

\* the GeneratedVideo built from the values the invocation closed over;
\* Date.now() is later than at every earlier call
NewVideo(j, blobUrl) ==
  [id |-> now + 1, url |-> blobUrl,
   prompt |-> IF tasks[j].prompt # "" THEN tasks[j].prompt ELSE PlaceholderPrompt,
   resolution |-> tasks[j].resolution, aspectRatio |-> tasks[j].aspectRatio,
   createdAt |-> now + 1]

\* the new video put behind the others
AppendVideo(newVideo, prev) == prev \o <<newVideo>>

\* setHistory(prev => [newVideo, ...prev])
PrependVideo(newVideo, prev) == <<newVideo>> \o prev

\* an update that forgets the list: setHistory([newVideo])
PrevDropped(j) == <<>>

\* prev of the functional update: the history state when the update is
\* applied
PrevHistory(j) == history

\* fetchVideoBlobUrl resolves with a new object URL: the video is prepended
\* to history, the prompt and the image are cleared
FetchResolve(j) ==
  /\ tasks[j].pc = "fetching"
  /\ LET blobUrl == Len(revokes) + 1
         newVideo == NewVideo(j, blobUrl)
     IN /\ history' = PrependVideo(newVideo, PrevHistory(j))
        /\ revokes' = Append(revokes, 0)
  /\ now' = now + 1
  /\ prompt' = ""
  /\ selectedImage' = FALSE
  /\ last' = [NoLast EXCEPT !.outcome = "succeeded", !.seen = tasks[j].seen]
  /\ Finally(j)
  /\ UNCHANGED <<hasKey, appVars, resolution, aspectRatio, readerPending, error, apiKey, parseVars>>

\* fetch() answers with a status that is not OK
FetchNotOk(j, status, text) ==
  /\ tasks[j].pc = "fetching"
  /\ Catch(j, FetchThrow(status, text), "fetch", text)
  /\ UNCHANGED <<appVars, now, revokes, apiKey, parseVars>>

\* fetch() itself rejects
FetchNetworkFail(j) ==
  /\ tasks[j].pc = "fetching"
  /\ Catch(j, NetworkError, "fetch", NetworkError.message)
  /\ UNCHANGED <<appVars, now, revokes, apiKey, parseVars>>

----------------------------------------------------------------------------
(* VideoStudio.removeVideo *)

\* a removeVideo that does not call URL.revokeObjectURL
removeVideoNoRevoke(id) ==
  LET found == {i \in 1..Len(history) : history[i].id = id}
  IN /\ revokes' = revokes
     /\ history' = SelectSeq(history, LAMBDA v : v.id # id)
     /\ last' = [NoLast EXCEPT !.outcome = IF found = {} THEN "none" ELSE "removed"]

removeVideo(id) ==
  LET found == {i \in 1..Len(history) : history[i].id = id}
  IN /\ revokes' = IF found = {} THEN revokes
                   ELSE [revokes EXCEPT ![history[SetMin(found)].url] = @ + 1]
     /\ history' = SelectSeq(history, LAMBDA v : v.id # id)
     /\ last' = [NoLast EXCEPT !.outcome = IF found = {} THEN "none" ELSE "removed"]

\* the delete button of a gallery entry
ClickRemove(i) ==
  /\ Mounted
  /\ i \in 1..Len(history)
  /\ removeVideo(history[i].id)
  /\ UNCHANGED <<hasKey, appVars, inputVars, isGenerating, statusMessage, error, tasks,
                 now, apiKey, parseVars>>

----------------------------------------------------------------------------
(* The handlers called directly, as a test of the component calls them *)

VideoIds == 1..(MaxVideos + 1)

CallStartGeneration ==
  /\ Mounted /\ tasks = <<>>
  /\ startGeneration
  /\ UNCHANGED <<hasKey, appVars, inputVars, history, now, revokes, apiKey, parseVars>>

CallRemoveVideo(id) ==
  /\ Mounted
  /\ removeVideo(id)
  /\ UNCHANGED <<hasKey, appVars, inputVars, isGenerating, statusMessage, error, tasks,
                 now, apiKey, parseVars>>

----------------------------------------------------------------------------
(* The host *)

\* the host environment puts another key into process.env.API_KEY
ChangeApiKey(k) ==
  /\ k # apiKey
  /\ apiKey' = k
  /\ last' = NoLast
  /\ UNCHANGED <<hasKey, appVars, inputVars, isGenerating, statusMessage, history, error,
                 tasks, now, revokes, parseVars>>

----------------------------------------------------------------------------
AppNext ==
  \/ CheckKeyResolve
  \/ CheckKeyReject
  \/ HandleSelectKey
  \/ OpenSelectKeyResolve
  \/ OpenSelectKeyReject

InputNext ==
  \/ \E p \in Prompts : SetPrompt(p)
  \/ \E r \in Resolutions : SetResolution(r)
  \/ \E a \in AspectRatios : SetAspectRatio(a)
  \/ \E isImage \in BOOLEAN : handleImageSelect(isImage)
  \/ ReaderLoadEnd
  \/ clearImage

JobNext ==
  \/ \E j \in 1..Len(tasks) : FileToBase64Resolve(j)
  \/ \E j \in 1..Len(tasks) : FileToBase64Reject(j)
  \/ \E j \in 1..Len(tasks), op \in {Pending} \cup Finished : SubmitResolve(j, op)
  \/ \E j \in 1..Len(tasks), e \in ServiceErrors : SubmitReject(j, e)
  \/ \E j \in 1..Len(tasks) : DelayDone(j)
  \/ \E j \in 1..Len(tasks), op \in {Pending} \cup Finished : PollResolve(j, op)
  \/ \E j \in 1..Len(tasks), e \in ServiceErrors : PollReject(j, e)
  \/ \E j \in 1..Len(tasks) : Len(revokes) < MaxVideos /\ FetchResolve(j)
  \/ \E j \in 1..Len(tasks), st \in BadStatuses, text \in BadBodies : FetchNotOk(j, st, text)
  \/ \E j \in 1..Len(tasks) : FetchNetworkFail(j)

Next ==
  \/ AppNext
  \/ InputNext
  \/ ClickGenerate
  \/ JobNext
  \/ \E i \in 1..MaxVideos : ClickRemove(i)

Spec == Init /\ [][Next]_vars

\* every await of an invocation settles: the timer fires, a service call or
\* the download is answered or rejected
SpecFair == Init /\ [][Next]_vars /\ WF_vars(JobNext)

\* the studio with a host that changes the key at any time
NextCredential ==
  \/ Next
  \/ \E k \in ApiKeys : ChangeApiKey(k)

SpecCredential == Init /\ [][NextCredential]_vars

NextHandlers ==
  \/ Next
  \/ CallStartGeneration
  \/ \E id \in VideoIds : CallRemoveVideo(id)

SpecHandlers == Init /\ [][NextHandlers]_vars

----------------------------------------------------------------------------
(* The gallery under jobs that succeed: prompts and resolutions are edited, *)
(* every service call is answered without an error, videos are removed by   *)
(* the delete button and by direct calls of removeVideo                     *)

\* object URLs the browser hands out in one run of the gallery
MaxGallery == 3

GoodAnswers == {Pending, [done |-> TRUE, error |-> <<>>, uri |-> "uri"]}

NextGallery ==
  \/ AppNext
  \/ \E p \in Prompts : SetPrompt(p)
  \/ \E r \in Resolutions : SetResolution(r)
  \/ ClickGenerate
  \/ \E j \in 1..Len(tasks), op \in GoodAnswers : SubmitResolve(j, op)
  \/ \E j \in 1..Len(tasks) : DelayDone(j)
  \/ \E j \in 1..Len(tasks), op \in GoodAnswers : PollResolve(j, op)
  \/ \E j \in 1..Len(tasks) : Len(revokes) < MaxGallery /\ FetchResolve(j)
  \/ \E i \in 1..MaxGallery : ClickRemove(i)
  \/ \E id \in 1..(MaxGallery + 1) : CallRemoveVideo(id)

SpecGallery == Init /\ [][NextGallery]_vars

\* Date.now() reads the host's wall clock, which can be set back (by the
\* user, by a time synchronisation): t is the value it is set to
SetClock(t) ==
  /\ t < now
  /\ now' = t
  /\ last' = NoLast
  /\ UNCHANGED <<hasKey, appVars, inputVars, isGenerating, statusMessage, history, error,
                 tasks, revokes, apiKey, parseVars>>

\* the gallery on a host whose clock can be set back
NextClock ==
  \/ NextGallery
  \/ \E t \in 0..(MaxGallery - 1) : SetClock(t)

SpecClock == Init /\ [][NextClock]_vars

----------------------------------------------------------------------------
(* The unwrapping applied to one error text *)

InitParse ==
  /\ hasKey = "null" /\ checkKeyPending = TRUE /\ selectPending = FALSE
  /\ StudioInit
  /\ tasks = <<>>
  /\ now = 0 /\ revokes = <<>> /\ apiKey = "key1"
  /\ last = NoLast
  /\ pIn \in ParseInputs /\ pOut = <<>>

ApplyParse ==
  /\ pOut = <<>>
  /\ pOut' = <<parseErrorMessage(ErrorOf(TextOf(pIn)))>>
  /\ last' = NoLast
  /\ UNCHANGED <<hasKey, appVars, inputVars, isGenerating, statusMessage, history, error,
                 tasks, now, revokes, apiKey, pIn>>

NextParse == ApplyParse

SpecParse == InitParse /\ [][NextParse]_vars

----------------------------------------------------------------------------
(* A job whose submission the service rejects with one error text *)

\* generateVeoVideo rejects with new Error(text): the catch block unwraps
\* the message; pOut records what parseErrorMessage returned
SubmitRejectText(j, text) ==
  /\ tasks[j].pc = "submitting"
  /\ CatchWith(j, AdapterThrow(ErrorOf(text)), "submit", text,
               parseErrorMessage(AdapterThrow(ErrorOf(text))),
               NeedsKeyReset(AdapterThrow(ErrorOf(text)),
                             parseErrorMessage(AdapterThrow(ErrorOf(text)))))
  /\ pOut' = <<parseErrorMessage(AdapterThrow(ErrorOf(text)))>>
  /\ UNCHANGED <<appVars, now, revokes, apiKey, pIn>>

NextShown ==
  \/ CheckKeyResolve
  \/ \E p \in Prompts : SetPrompt(p)
  \/ ClickGenerate
  \/ \E j \in 1..Len(tasks) : pOut = <<>> /\ SubmitRejectText(j, TextOf(pIn))

SpecShown == InitParse /\ [][NextShown]_vars

----------------------------------------------------------------------------
(* The generation lifecycle: C1 to C4 *)

\* C1: at most one invocation of startGeneration is in flight at any time,
\* and while one is in flight (at any of its awaits) the generate button
\* accepts no click, so no second generateVeoVideo call is issued.
C1_OneJobAtATime ==
  /\ Len(tasks) <= 1
  /\ tasks # <<>> => (isGenerating /\ ~ENABLED ClickGenerate)

\* an invocation waits for a poll while the inputs alone would allow a
\* submission
C1_Witness ==
  /\ Len(tasks) = 1 /\ tasks[1].pc = "polling"
  /\ Trim(prompt) # "" /\ selectedImage

\* C2: a call of startGeneration with an empty or whitespace-only prompt and
\* no image is rejected: no invocation starts (so no adapter call is made),
\* isGenerating stays false, history is unchanged and the precondition
\* message is set.
C2_PreconditionRejected ==
  [][(Trim(prompt) = "" /\ ~selectedImage /\ CallStartGeneration)
       => /\ tasks' = tasks /\ tasks = <<>>
          /\ ~isGenerating /\ ~isGenerating'
          /\ history' = history
          /\ error' = <<NoInputError>>
          /\ last'.outcome = "rejected"]_vars

\* a whitespace-only prompt was rejected
C2_Witness ==
  /\ last.outcome = "rejected" /\ prompt = " " /\ ~selectedImage
  /\ tasks = <<>> /\ error = <<NoInputError>>

\* C3: when the status sequence of a job ended with done, no job-level
\* error and a result uri, and the download of the video resolves, the
\* invocation succeeds and exactly one video is prepended to history; its
\* resolution and aspectRatio are those of the submitted request, its prompt
\* is the request's prompt when that is not empty and the label
\* "Image-to-Video Animation" when it is.
C3_SuccessPrepends ==
  [][\A j \in 1..Len(tasks) :
       FetchResolve(j)
         => /\ tasks[j].pc = "fetching"
            /\ last'.outcome = "succeeded"
            /\ Len(history') = Len(history) + 1
            /\ SubSeq(history', 2, Len(history')) = history
            /\ history'[1].resolution = tasks[j].resolution
            /\ history'[1].aspectRatio = tasks[j].aspectRatio
            /\ history'[1].prompt = IF tasks[j].prompt = "" THEN PlaceholderPrompt
                                    ELSE tasks[j].prompt]_vars

\* an image-only request at 1080p, 9:16 succeeded
C3_Witness ==
  /\ last.outcome = "succeeded" /\ Len(history) = 1
  /\ history[1].prompt = PlaceholderPrompt
  /\ history[1].resolution = "1080p" /\ history[1].aspectRatio = "9:16"

\* C3 as stated: every invocation whose status sequence ended with done, no
\* job-level error and a result uri (it waits for the download) ends
\* succeeded, with one video prepended that carries the request's prompt,
\* resolution and aspectRatio.
C3_AsStated ==
  [][\A j \in 1..Len(tasks) :
       (tasks[j].pc = "fetching" /\ Len(tasks') < Len(tasks))
         => /\ last'.outcome = "succeeded"
            /\ Len(history') = Len(history) + 1
            /\ history'[1].resolution = tasks[j].resolution
            /\ history'[1].aspectRatio = tasks[j].aspectRatio
            /\ history'[1].prompt = tasks[j].prompt]_vars

\* the display error of a job that finished without content
NoContentError == [message |-> NoContentMsg, isQuota |-> FALSE]

\* an operation value reaches the code after the submit or after a poll
StatusStep(j, op) == SubmitResolve(j, op) \/ PollResolve(j, op)

\* C4: when the status sequence of a job ends with done, no job-level error
\* and no result uri, the invocation ends failed with the message that no
\* video content was returned; it never waits for a download
\* (fetchVideoBlobUrl is not called) and history is unchanged.
C4_NoContentFails ==
  [][\A j \in 1..Len(tasks), op \in Finished :
       (op.error = <<>> /\ op.uri = "" /\ StatusStep(j, op))
         => /\ last'.outcome = "failed"
            /\ last'.shown = <<NoContentError>>
            /\ error' = <<NoContentError>>
            /\ tasks' = <<>>
            /\ history' = history]_vars

\* a job ended without a result uri after at least one poll
C4_Witness ==
  /\ last.outcome = "failed" /\ last.stage = "nouri"
  /\ error = <<NoContentError>> /\ tasks = <<>>

\* C4 as stated: whenever the status sequence ends with done and no result
\* uri, with or without a job-level error, the invocation ends failed with
\* the no-content message and history unchanged.
C4_AsStated ==
  [][\A j \in 1..Len(tasks), op \in Finished :
       (op.uri = "" /\ StatusStep(j, op))
         => /\ last'.outcome = "failed"
            /\ last'.shown = <<NoContentError>>
            /\ history' = history]_vars

----------------------------------------------------------------------------
(* Error classification: C5 to C8 *)

\* the step just taken ended an invocation in the catch block
Ended == last.outcome \in {"failed", "reset"}

\* C5: when generateVeoVideo, getOperationStatus or the download is answered
\* with a text that contains "Requested entity was not found", the
\* invocation calls onKeyReset() exactly once and sets no error: error is
\* null when the invocation has ended.
C5_MarkerResetsKey ==
  (Ended /\ last.stage \in {"submit", "poll", "fetch"} /\ Includes(last.svc, NotFoundMarker))
    => /\ last.outcome = "reset" /\ last.resets = 1
       /\ last.shown = <<>> /\ error = <<>>
       /\ hasKey = "false"

\* a poll was rejected with the marker inside a JSON envelope
C5_Witness ==
  /\ last.outcome = "reset" /\ last.stage = "poll"
  /\ last.svc = JsonNotFound /\ hasKey = "false"

\* C6: a failure whose text carries both "Requested entity was not found"
\* and a quota marker ("quota", "RESOURCE_EXHAUSTED" or "429") resets the
\* key and is never shown as a quota error.
C6_ResetBeforeQuota ==
  (Ended /\ Includes(last.svc, NotFoundMarker) /\ isQuotaError(last.svc))
    => /\ last.outcome = "reset"
       /\ last.shown = <<>>
       /\ \A i \in 1..Len(error) : ~error[i].isQuota

\* a finished operation carried an error with both markers
C6_Witness ==
  /\ last.outcome = "reset" /\ last.stage = "job"
  /\ Includes(last.svc, NotFoundMarker) /\ isQuotaError(last.svc)

\* C7 as stated: a failure that is not a key reset is shown with isQuota
\* true exactly when the message of the error contains "quota" in any case,
\* "RESOURCE_EXHAUSTED" or "429".
C7_QuotaIffMarker ==
  last.outcome = "failed" => (last.shown[1].isQuota <=> isQuotaError(last.raw))

\* the bodies that are one JSON object on one line with a non-empty
\* error.message or message, and the text of that field (error.message
\* first)
FieldOf(body) ==
  CASE body = JsonErrorX -> <<"X">>
    [] body = JsonMessageX -> <<"X">>
    [] body = JsonBoth -> <<"X">>
    [] body = JsonEnvelope429 -> <<"Too", "many", "requests">>
    [] body = JsonQuota -> <<"Quota", "exceeded">>
    [] body = JsonEmptyInner -> <<"Y">>
    [] body = JsonTwoLines -> <<"X">>
    [] OTHER -> <<>>
OneLineFieldBodies ==
  {JsonErrorX, JsonMessageX, JsonBoth, JsonEnvelope429, JsonQuota, JsonEmptyInner}

\* no brace before the object and no closing brace after it on its line
NoBraceAround(in) ==
  /\ \A i \in 1..Len(in.pre) : in.pre[i] # "{"
  /\ \A i \in 1..Len(in.suf) : in.suf[i] = "}" => \E k \in 1..(i - 1) : in.suf[k] = NL

----------------------------------------------------------------------------
(* The gallery and the return to idle: C9, C10 *)

\* C9: removeVideo(id) with an id of history calls URL.revokeObjectURL on
\* that entry's url exactly once and removes the entry; with an id that is
\* not in history it changes neither history nor any object URL.  No object
\* URL is ever revoked twice.
C9_RemoveReleasesOnce ==
  /\ [](\A u \in 1..Len(revokes) : revokes[u] <= 1)
  /\ [][\A id \in VideoIds :
          CallRemoveVideo(id)
            => LET at == {i \in 1..Len(history) : history[i].id = id}
                   urls == {history[i].url : i \in at}
               IN IF at = {}
                  THEN history' = history /\ revokes' = revokes
                  ELSE /\ Len(history') = Len(history) - 1
                       /\ \A i \in 1..Len(history') : history'[i].id # id
                       /\ \A i \in 1..Len(history) :
                            history[i].id # id
                              => \E k \in 1..Len(history') : history'[k] = history[i]
                       /\ Len(revokes') = Len(revokes)
                       /\ \A u \in 1..Len(revokes) :
                            revokes'[u] = revokes[u] + (IF u \in urls THEN 1 ELSE 0)]_vars

\* the only video was removed and its object URL revoked
C9_Witness ==
  /\ last.outcome = "removed" /\ history = <<>> /\ revokes = <<1>>

\* C10: after every failure (the precondition, a rejected read, submit, poll
\* or download, a job-level error, a missing uri, a key reset) isGenerating
\* is false, the status message is empty and no invocation is left; with
\* valid inputs in a mounted studio the generate button accepts a click, and
\* a click starts a new invocation.
C10_FailureReturnsToIdle ==
  /\ [](last.outcome \in {"rejected", "failed", "reset"}
          => /\ ~isGenerating /\ statusMessage = "" /\ tasks = <<>>
             /\ (Mounted /\ ~(Trim(prompt) = "" /\ ~selectedImage))
                  => ENABLED ClickGenerate)
  /\ [][ClickGenerate
          => /\ Len(tasks') = Len(tasks) + 1
             /\ isGenerating' /\ error' = <<>>]_vars

\* a download failed and the prompt is still there for the next submission
C10_Witness ==
  /\ last.outcome = "failed" /\ last.stage = "fetch"
  /\ Mounted /\ Trim(prompt) # "" /\ ~isGenerating /\ statusMessage = ""

----------------------------------------------------------------------------
(* Resources and order of the gallery: C11, C12 *)

\* C11 as stated: every object URL that fetchVideoBlobUrl handed out and
\* that was not revoked belongs to an entry of history; an entry that left
\* history, by removeVideo or because the studio was discarded on a key
\* reset, had its object URL revoked.
C11_HandlesOwned ==
  \A u \in 1..Len(revokes) :
    revokes[u] = 0 => \E i \in 1..Len(history) : history[i].url = u

\* C12: history is most-recent-first at all times, and no step reorders it:
\* two entries that are in history before and after a step keep their
\* relative order, and an entry that a step adds stands at the head.
C12_AppendAtHeadNeverReordered ==
  /\ [](\A i, k \in 1..Len(history) :
          i < k => history[i].createdAt > history[k].createdAt)
  /\ [][(\A i, k \in 1..Len(history), i2, k2 \in 1..Len(history') :
            (i < k /\ history'[i2] = history[i] /\ history'[k2] = history[k])
              => i2 < k2)
        /\ (\A n \in 1..Len(history') :
              (\A i \in 1..Len(history) : history[i] # history'[n]) => n = 1)]_vars

\* of three videos the second was removed: the newest is still first
C12_Witness ==
  /\ last.outcome = "removed" /\ Len(history) = 2
  /\ history[1].createdAt = 3 /\ history[2].createdAt = 1
  /\ history[1].resolution # history[2].resolution

----------------------------------------------------------------------------
(* The poll loop and the adapter: C13 to C17 *)

\* C13: an operation that is done with a job-level error ends the
\* invocation in the catch block (failed, or the key reset when the error
\* carries the not-found marker), also when it carries a result uri; an
\* invocation only waits for fetchVideoBlobUrl after an operation that is
\* done, has no job-level error and has a result uri.
C13_ErrorNeverFetches ==
  [][\A j \in 1..Len(tasks), op \in {Pending} \cup Finished :
       StatusStep(j, op)
         => /\ (op.done /\ op.error # <<>>)
                 => /\ last'.outcome \in {"failed", "reset"}
                    /\ last'.stage = "job"
                    /\ tasks' = <<>>
            /\ (Len(tasks') = Len(tasks) /\ tasks'[j].pc = "fetching")
                 => (op.done /\ op.error = <<>> /\ op.uri # "")]_vars

\* a job-level error ended the invocation as failed
C13_Witness ==
  /\ last.outcome = "failed" /\ last.stage = "job"
  /\ last.svc = PlainGeneric /\ tasks = <<>>
  /\ error = <<[message |-> PlainGeneric, isQuota |-> FALSE]>>

\* an adapter call of invocation j is rejected
AdapterRejects(j) ==
  \/ \E e \in ServiceErrors : SubmitReject(j, e) \/ PollReject(j, e)
  \/ \E st \in BadStatuses, text \in BadBodies : FetchNotOk(j, st, text)
  \/ FetchNetworkFail(j)

\* an invocation waits for the answer of an adapter call
AwaitsAdapter(t) == t.pc \in {"submitting", "polling", "fetching"}

\* C14: the step in which generateVeoVideo, getOperationStatus or
\* fetchVideoBlobUrl rejects ends the invocation in the catch block: the
\* invocation is gone, so it makes no further adapter call, and no
\* invocation waits for an adapter call afterwards.  An invocation has at
\* most one adapter call outstanding, answered by one resolve or reject.
C14_NoRetry ==
  [][\A j \in 1..Len(tasks) :
       AdapterRejects(j)
         => /\ AwaitsAdapter(tasks[j])
            /\ last'.outcome \in {"failed", "reset"}
            /\ last'.stage \in {"submit", "poll", "fetch"}
            /\ Len(tasks') < Len(tasks)
            /\ \A k \in 1..Len(tasks') : ~AwaitsAdapter(tasks'[k])
            /\ ~isGenerating']_vars

\* a poll was rejected and the invocation ended as failed
C14_Witness ==
  /\ last.outcome = "failed" /\ last.stage = "poll"
  /\ last.svc = PlainGeneric /\ tasks = <<>> /\ ~isGenerating

\* C15: an invocation in the poll loop keeps isGenerating true; a submit or
\* a poll answered with done = false leaves it in the loop, waiting for the next
\* 10 s timer, and nothing but the answers ends the loop: at the timer the
\* next poll is always possible and at a poll a further done = false answer
\* is always possible, whatever number of polls went before.  An answer
\* with done = true ends the invocation or brings it to the download, and
\* an invocation that waits for the download ends (succeeded, failed or
\* key reset) once the download is answered.
C15_PollsUntilDone ==
  /\ [](\A j \in 1..Len(tasks) :
          tasks[j].pc \in {"delay", "polling"}
            => /\ isGenerating
               /\ tasks[j].pc = "delay" => ENABLED DelayDone(j)
               /\ tasks[j].pc = "polling" => ENABLED PollResolve(j, Pending))
  /\ [][\A j \in 1..Len(tasks) :
          /\ StatusStep(j, Pending)
               => (Len(tasks') = Len(tasks) /\ tasks'[j].pc = "delay" /\ isGenerating')
          /\ DelayDone(j)
               => (Len(tasks') = Len(tasks) /\ tasks'[j].pc = "polling" /\ isGenerating')
          /\ \A op \in Finished :
               PollResolve(j, op)
                 => \/ tasks' = <<>> /\ last'.outcome \in {"failed", "reset"}
                    \/ Len(tasks') = Len(tasks) /\ tasks'[j].pc = "fetching"]_vars
  /\ ((\E j \in 1..Len(tasks) : tasks[j].pc = "fetching")
        ~> (tasks = <<>> /\ last.outcome \in {"succeeded", "failed", "reset"}))

\* an invocation that was told done = false waits for the answer of its
\* next poll
C15_Witness ==
  /\ Len(tasks) = 1 /\ tasks[1].pc = "polling" /\ isGenerating
  /\ \E i \in 1..Len(stages) : statusMessage = stages[i]

\* C16: for a response that is not OK, fetchVideoBlobUrl throws
\* Error("API_KEY_RESET_REQUIRED") when the status is 404 or the body
\* contains "Requested entity was not found", and otherwise an error whose
\* message is "Failed to fetch video content:" followed by the status and
\* the body; for an OK response it returns an object URL that no entry of
\* history holds and that was never revoked.
C16_FetchClassification ==
  [][\A j \in 1..Len(tasks) :
       /\ \A st \in BadStatuses, text \in BadBodies :
            FetchNotOk(j, st, text)
              => /\ last'.stage = "fetch"
                 /\ last'.raw = IF st = "404" \/ Includes(text, NotFoundMarker)
                                THEN KeyResetMsg
                                ELSE <<"Failed to fetch video content:", st>> \o text
                 /\ history' \in {history, <<>>}
                 /\ revokes' = revokes
       /\ FetchResolve(j)
            => /\ Len(revokes') = Len(revokes) + 1
               /\ history'[1].url = Len(revokes')
               /\ revokes'[history'[1].url] = 0
               /\ \A i \in 1..Len(history) : history[i].url # history'[1].url]_vars

\* the download was answered 500 with an empty body: the failure carries
\* the status
C16_Witness ==
  /\ last.outcome = "failed" /\ last.stage = "fetch"
  /\ last.raw = <<"Failed to fetch video content:", "500">>
  /\ error = <<[message |-> <<"Failed to fetch video content:", "500">>, isQuota |-> FALSE]>>

\* the service reports the entity as not found: the marker is in the
\* message of the rejection or in its JSON text
ReportsNotFound(e) ==
  Includes(e.message, NotFoundMarker) \/ Includes(e.json, NotFoundMarker)

\* C17: a rejection of generateVeoVideo and a rejection of
\* getOperationStatus are classified alike: when the service reports the
\* entity as not found the adapter throws Error("API_KEY_RESET_REQUIRED"),
\* for every other rejection it throws the service error with its message
\* unchanged.
C17_SubmitPollClassification ==
  [][\A j \in 1..Len(tasks), e \in ServiceErrors :
       (SubmitReject(j, e) \/ PollReject(j, e))
         => /\ last'.stage = IF tasks[j].pc = "submitting" THEN "submit" ELSE "poll"
            /\ last'.raw = IF ReportsNotFound(e) THEN KeyResetMsg ELSE e.message]_vars

\* a poll was rejected with a quota text: the message reached the catch
\* unchanged
C17_Witness ==
  /\ last.outcome = "failed" /\ last.stage = "poll"
  /\ last.svc = PlainQuota /\ last.raw = PlainQuota

----------------------------------------------------------------------------
(* The credential: C18, C19 *)

\* C18: when openSelectKey() resolves the app shows the studio (hasKey is
\* true) and hasSelectedApiKey() is not called again: the one call of the
\* mount effect has settled and none is started.  When openSelectKey()
\* rejects, hasKey stays false and the credential screen stays.
C18_SelectionAssumed ==
  /\ [](selectPending => (hasKey = "false" /\ ~checkKeyPending))
  /\ [][/\ ~checkKeyPending => ~checkKeyPending'
        /\ OpenSelectKeyResolve
             => (hasKey = "false" /\ hasKey' = "true" /\ last'.outcome = "keySelected")
        /\ OpenSelectKeyReject
             => (hasKey = "false" /\ hasKey' = "false" /\ last'.outcome = "selectFailed")]_vars

\* the key dialog was completed and the studio is shown
C18_Witness ==
  /\ last.outcome = "keySelected" /\ hasKey = "true"
  /\ ~checkKeyPending /\ ~selectPending

\* C19: every adapter call reads process.env.API_KEY when it is made: an
\* invocation that starts to wait for generateVeoVideo, getOperationStatus
\* or fetchVideoBlobUrl made that call with the key configured at that
\* step, whatever key its earlier calls used; a change of the key leaves
\* the calls already made as they are.
C19_KeyReadAtCall ==
  [][/\ \A j \in 1..Len(tasks') :
          (AwaitsAdapter(tasks'[j]) /\ (j > Len(tasks) \/ tasks[j].pc # tasks'[j].pc))
            => /\ tasks'[j].key = apiKey /\ apiKey' = apiKey
               /\ tasks'[j].prevKey = IF j > Len(tasks) THEN "" ELSE tasks[j].key
     /\ apiKey' # apiKey => tasks' = tasks]_vars

\* the key changed between the submit and the first poll: the poll was
\* made with the new key
C19_Witness ==
  /\ Len(tasks) = 1 /\ tasks[1].pc = "polling"
  /\ tasks[1].prevKey = "key1" /\ tasks[1].key = "key2" /\ apiKey = "key2"

----------------------------------------------------------------------------
(* The inputs after a success: C20 *)

\* C20 as stated: when an invocation has just succeeded the prompt is
\* empty, no image is selected, and no image that the user picked before
\* the success is still on its way into the selection (no FileReader of
\* handleImageSelect is waiting for its onloadend).
C20_InputsClearedOnSuccess ==
  last.outcome = "succeeded"
    => (prompt = "" /\ ~selectedImage /\ ~readerPending)

----------------------------------------------------------------------------
(* History across a job: C21 to C24 *)

\* the ids of the entries of a list of videos, in its order
Ids(h) == [i \in 1..Len(h) |-> h[i].id]

\* C21: while an invocation is in flight history holds exactly the videos
\* that were there when it was started and were not removed since, in
\* their order; when the invocation succeeds, history is the new video
\* followed by exactly those entries: no removed entry is back, no
\* surviving entry is missing.
C21_RemovalsDuringJobKept ==
  /\ [](\A j \in 1..Len(tasks) :
          Ids(history) = SelectSeq(tasks[j].seen,
                                   LAMBDA id : \E i \in 1..Len(history) : history[i].id = id))
  /\ [][\A j \in 1..Len(tasks) :
          FetchResolve(j)
            => /\ Len(history') = Len(history) + 1
               /\ history'[1].id = now'
               /\ \A i \in 1..Len(tasks[j].seen) : history'[1].id # tasks[j].seen[i]
               /\ SubSeq(history', 2, Len(history')) = history]_vars

\* an invocation started with two videos in the gallery, the older one was
\* removed while it ran, and it succeeded
C21_Witness ==
  /\ last.outcome = "succeeded" /\ last.seen = <<2, 1>>
  /\ Ids(history) = <<3, 2>> /\ revokes = <<1, 0, 0>>

\* C22 as stated: a key reset keeps the gallery: the history of the studio
\* that is shown once a key has been selected again holds the entries that
\* history held when onKeyReset() was called.
C22_HistoryKeptAcrossReset ==
  [][last'.outcome = "reset" => history' = history]_vars

\* C23: the adapter calls of one invocation come in the order of the code.
\* generateVeoVideo is the first call (made when the invocation starts, or
\* after the image was read) and is never made again; getOperationStatus is
\* only called when the 10 s timer fires, and the timer is only started
\* after a submit or a poll that was answered with done = false;
\* fetchVideoBlobUrl is only called after an answer with done = true, and
\* the invocation ends with its answer; a submit answered with done = true
\* is followed by no poll; an invocation that has ended makes no call.
C23_CallOrder ==
  [][/\ Len(tasks') > Len(tasks)
          => /\ Len(tasks') = Len(tasks) + 1
             /\ tasks'[Len(tasks')].pc \in {"reading", "submitting"}
             /\ tasks'[Len(tasks')].prevKey = ""
     /\ \A j \in 1..Len(tasks) :
          (Len(tasks') = Len(tasks) /\ tasks'[j].pc # tasks[j].pc)
            => /\ tasks'[j].pc = "submitting"
                    => (tasks[j].pc = "reading" /\ tasks[j].key = "")
               /\ tasks'[j].pc = "delay"
                    => (tasks[j].pc \in {"submitting", "polling"} /\ StatusStep(j, Pending))
               /\ tasks'[j].pc = "polling"
                    => (tasks[j].pc = "delay" /\ DelayDone(j))
               /\ tasks'[j].pc = "fetching"
                    => /\ tasks[j].pc \in {"submitting", "polling"}
                       /\ \E op \in Finished : StatusStep(j, op)
               /\ tasks'[j].pc # "reading"
               /\ tasks[j].pc # "fetching"
     /\ \A j \in 1..Len(tasks), op \in Finished :
          SubmitResolve(j, op)
            => \/ tasks' = <<>>
               \/ Len(tasks') = Len(tasks) /\ tasks'[j].pc = "fetching"]_vars

\* the download was started after at least one earlier adapter call
C23_Witness ==
  /\ Len(tasks) = 1 /\ tasks[1].pc = "fetching"
  /\ tasks[1].prevKey # "" /\ tasks[1].key # ""
  /\ statusMessage = FinalizingMsg

\* C23 as stated: every invocation makes exactly one generateVeoVideo call,
\* so an invocation that ends has made it.
C23_AsStated ==
  [][\A j \in 1..Len(tasks) :
       Len(tasks') < Len(tasks) => tasks[j].key # ""]_vars

\* C24 as stated: an invocation that ends in the catch block, the key reset
\* included, leaves history as it was, and history only changes by the
\* prepend of a success and by removeVideo.
C24_FailuresKeepHistory ==
  [][/\ (last'.outcome \in {"failed", "reset"} => history' = history)
     /\ (history' # history => last'.outcome \in {"succeeded", "removed"})]_vars

----------------------------------------------------------------------------
(* Error texts that are shown as they are: C25 *)

\* the three cases of the fallback: no {...} on one line; a {...} that
\* JSON.parse rejects; an object without error.message and without message
NoBraces(msg) == MatchBraces(msg) = <<>>
NotJson(msg) == MatchBraces(msg) # <<>> /\ ~JSONparse(MatchBraces(msg)[1]).ok
NoField(msg) ==
  /\ MatchBraces(msg) # <<>>
  /\ JSONparse(MatchBraces(msg)[1]).ok
  /\ Get(Get(JSONparse(MatchBraces(msg)[1]).v, "error"), "message") = Undef
  /\ Get(JSONparse(MatchBraces(msg)[1]).v, "message") = Undef
FallsBack(msg) == NoBraces(msg) \/ NotJson(msg) \/ NoField(msg)

\* C25: when the message of a rejected submission has no {...} substring,
\* or the substring is not valid JSON, or the parsed object has neither
\* error.message nor message, parseErrorMessage returns the message
\* unchanged, and the error shown to the user carries exactly that text;
\* it is a generic failure unless the text holds a quota marker.
C25_FallbackShowsRaw ==
  (last.stage = "submit" /\ FallsBack(TextOf(pIn))) =>
    /\ pOut = <<TextOf(pIn)>>
    /\ last.outcome = "failed" /\ last.raw = TextOf(pIn)
    /\ error = <<[message |-> TextOf(pIn), isQuota |-> isQuotaError(TextOf(pIn))]>>

\* "internal server error" followed by a line with {}: the object has no
\* message, the whole text is shown as a generic failure
C25_Witness ==
  /\ pIn = [pre |-> <<>>, body |-> PlainGeneric, suf |-> <<NL, "{", "}">>]
  /\ NoField(TextOf(pIn)) /\ last.stage = "submit"
  /\ error = <<[message |-> PlainGeneric \o <<NL, "{", "}">>, isQuota |-> FALSE]>>

----------------------------------------------------------------------------
(* Job-level errors and the job-active flag: C26, C27 *)

\* the finished operations whose error message holds the marker
NotFoundOps ==
  {op \in Finished : op.error # <<>> /\ Includes(op.error[1], NotFoundMarker)}

\* C26: when generateVeoVideo or getOperationStatus answers with a finished
\* operation whose error message contains "Requested entity was not found",
\* with or without a result uri, the invocation calls onKeyReset() once,
\* sets no error and ends: the key is deselected and error is null.
C26_JobErrorMarkerResets ==
  [][\A j \in 1..Len(tasks), op \in NotFoundOps :
       StatusStep(j, op)
         => /\ last'.outcome = "reset" /\ last'.resets = 1
            /\ last'.shown = <<>> /\ error' = <<>>
            /\ hasKey' = "false" /\ tasks' = <<>>]_vars

\* a job-level error with the marker and a quota word ended an invocation
C26_Witness ==
  /\ last.outcome = "reset" /\ last.stage = "job"
  /\ last.svc = <<"quota">> \o NotFoundMarker /\ last.raw = KeyResetMsg
  /\ hasKey = "false" /\ error = <<>> /\ tasks = <<>>

\* C27: isGenerating is true exactly while an invocation of startGeneration
\* is between its start and its end (reading the image, submitting, waiting
\* for the next poll, polling or downloading), there is at most one such
\* invocation, and the status message is empty whenever isGenerating is
\* false.
C27_FlagTracksJob ==
  /\ isGenerating <=> tasks # <<>>
  /\ Len(tasks) <= 1
  /\ \A j \in 1..Len(tasks) :
       tasks[j].pc \in {"reading", "submitting", "delay", "polling", "fetching"}
  /\ statusMessage # "" => isGenerating

\* between two polls, with one of the rotating status texts shown
C27_Witness ==
  /\ isGenerating /\ Len(tasks) = 1 /\ tasks[1].pc = "delay"
  /\ statusMessage = stages[2]

----------------------------------------------------------------------------
(* Error and inputs across a job: C28, C29 *)

\* C28: an accepted click on generate sets error to null in the step that
\* starts the invocation, before any adapter call; while the invocation
\* runs error is null or the invalid-file error of handleImageSelect, and
\* only handleImageSelect changes it; a success leaves error as it is, so
\* after a success error is null unless a file that is not an image was
\* picked during the job.
C28_ErrorClearedForJob ==
  /\ [](tasks # <<>> => error \in {<<>>, <<InvalidImageError>>})
  /\ [][(Len(tasks') > Len(tasks))
          => (error' = <<>> /\ tasks'[Len(tasks')].prevKey = "")]_vars
  /\ [][(tasks # <<>> /\ tasks' # <<>> /\ error' # error)
          => handleImageSelect(FALSE)]_vars
  /\ [][(last'.outcome = "succeeded") => (error' = error)]_vars

\* a job succeeded after a file that is not an image was picked while it
\* ran: the error of that pick is shown next to the new video
C28_Witness ==
  /\ last.outcome = "succeeded" /\ Len(history) = 1
  /\ error = <<InvalidImageError>>

\* C29 as stated: an invocation that fails after a rejected submit, poll or
\* download, a job-level error or a missing result uri leaves the prompt,
\* the selected image, the resolution and the aspect ratio as they were.
C29_FailureKeepsInputs ==
  [][(/\ last'.outcome \in {"failed", "reset"}
      /\ last'.stage \in {"submit", "poll", "fetch", "job", "nouri"})
       => UNCHANGED <<prompt, selectedImage, resolution, aspectRatio>>]_vars

----------------------------------------------------------------------------
(* Ids of the gallery: C30 *)

\* C30 as stated: no two entries of history have the same id, and a call
\* of removeVideo removes at most one entry and revokes the object URL of
\* every entry it removes.
C30_IdsDistinct ==
  /\ [](\A i, k \in 1..Len(history) : i # k => history[i].id # history[k].id)
  /\ [][\A id \in 1..(MaxGallery + 1) :
          CallRemoveVideo(id)
            => (/\ Len(history') >= Len(history) - 1
                /\ \A i \in 1..Len(history) :
                     history[i].id = id
                       => revokes'[history[i].url] = revokes[history[i].url] + 1)]_vars

----------------------------------------------------------------------------
(* The credential gate and the prompt: C31, C32 *)

\* C31: an invocation of startGeneration starts and runs only while hasKey
\* is true.  hasKey is null exactly while hasSelectedApiKey() has not
\* settled; it becomes the value the call resolves with, and false when
\* the call rejects.  After onKeyReset() hasKey is false, the generate
\* button cannot be clicked, and hasKey becomes true again only when
\* openSelectKey() resolves.
C31_CredentialGate ==
  /\ [](/\ (hasKey # "true" => (tasks = <<>> /\ ~isGenerating /\ ~ENABLED ClickGenerate))
        /\ (hasKey = "null" <=> checkKeyPending)
        /\ (last.outcome = "reset" => hasKey = "false"))
  /\ [][/\ (Len(tasks') > Len(tasks)) => (hasKey = "true" /\ hasKey' = "true")
        /\ (\A selected \in BOOLEAN :
              CheckKeyResolveTo(selected)
                => (hasKey = "null" /\ hasKey' = IF selected THEN "true" ELSE "false"))
        /\ (CheckKeyReject => (hasKey = "null" /\ hasKey' = "false"))
        /\ ((hasKey = "false" /\ hasKey' # "false")
              => (hasKey' = "true" /\ OpenSelectKeyResolve))
        /\ (hasKey # "null" => hasKey' # "null")]_vars

\* a download was answered with the credential error: the key screen is
\* shown and no job can be started
C31_Witness ==
  /\ last.outcome = "reset" /\ last.stage = "fetch"
  /\ hasKey = "false" /\ ~selectPending /\ tasks = <<>>
  /\ ~ENABLED ClickGenerate /\ ENABLED HandleSelectKey

\* the prompt generateVeoVideo sends when the request has none
DefaultPrompt == "Animate this image with natural motion"

\* C32: a click on generate with an empty prompt and an image selected
\* starts an invocation.  The generateVeoVideo call of an invocation sends
\* the default prompt when the request's prompt is empty and the request's
\* prompt otherwise; the video of a success records the placeholder label
\* when the request's prompt is empty and the request's prompt otherwise.
C32_DefaultPromptAndLabel ==
  [][/\ ((ClickGenerate /\ prompt = "" /\ selectedImage)
          => (/\ Len(tasks') = Len(tasks) + 1
              /\ tasks'[Len(tasks')].prompt = "" /\ tasks'[Len(tasks')].pc = "reading"))
     /\ (Len(tasks') > Len(tasks) => tasks'[Len(tasks')].prompt = prompt)
     /\ (\A j \in 1..Len(tasks') :
           (/\ tasks'[j].pc = "submitting"
            /\ (j > Len(tasks) \/ tasks[j].pc # "submitting"))
             => tasks'[j].sent = IF tasks'[j].prompt = "" THEN DefaultPrompt
                                 ELSE tasks'[j].prompt)
     /\ (\A j \in 1..Len(tasks) :
           (Len(tasks') = Len(tasks) /\ tasks[j].pc # "reading")
             => (tasks'[j].sent = tasks[j].sent /\ tasks'[j].prompt = tasks[j].prompt))
     /\ (\A j \in 1..Len(tasks) :
           FetchResolve(j)
             => history'[1].prompt = IF tasks[j].prompt = "" THEN PlaceholderPrompt
                                     ELSE tasks[j].prompt)]_vars

\* an image-only request was sent with the default prompt and its video
\* is being downloaded
C32_Witness ==
  /\ Len(tasks) = 1 /\ tasks[1].pc = "fetching"
  /\ tasks[1].prompt = "" /\ tasks[1].sent = DefaultPrompt

====
